---- MODULE Spec2Model ----
(***************************************************************************)
(* The bounded vision-agent control loop of scripts/agent_scrape.py:       *)
(* WebAgent.run with its Planner (plan_extraction), State Observer         *)
(* (capture_state), Action Selector (decide_action), Action Executor       *)
(* (execute_action) and Finalizer (final_extraction).                      *)
(*                                                                         *)
(* The browser and the language model are external: every call to them     *)
(* draws its outcome (a value, or an exception) from a small set.          *)
(* Python values are modelled as follows: a dict is a record, a list is a  *)
(* sequence, a JSON value of unknown shape is wrapped as [t |-> kind, ...],*)
(* a call that may raise returns [exc |-> "none" or the error, val |-> v], *)
(* and a confidence c is kept in tenths (0.5 is 5).                        *)
(***************************************************************************)
EXTENDS Integers, Sequences, FiniteSets, TLC

\* ------------------------------------------------------------------ bounds
\* Largest number of writes each of two side-by-side instances makes.
MaxOps == 2
\* Largest number of candidate elements of a page whose element queries are
\* compared.
MaxCands == 3
\* Largest number of network events in a log whose loading flag is computed,
\* and the number of times the clock advances by a whole window.
MaxTraffic == 2
MaxTicks == 1
\* Largest number of entries of either log in a run whose returned telemetry
\* is examined (more than the tail that is returned).
MaxLog == 31
\* Largest step budget a run is started with.
MaxBudget == 2
\* Page events (network + console) delivered in a run of budget 0; each unit
\* of budget leaves room for two events less: runs with long histories and
\* runs with many page events are explored side by side, not multiplied.
MaxEvents == 4
\* Largest number of candidate elements on the page, and largest
\* element_index the model names (so an index past the end exists).
MaxElems == 1
\* Calls of run() made again on an instance whose run has returned, plus the
\* page events (network + console) delivered in all its calls: instances run
\* many times and instances with long logs are explored side by side.
MaxRerunSize == 2
\* Largest number of characters of the page text the single-shot scraper reads.
MaxText == 2

\* ------------------------------------------------------- program constants
MissingKindConfidence == 5
DecisionErrorConfidence == 3
FinalFallbackConfidence == 5
ScrollDistance == 800
WaitDuration == 2
StabilitySleep == 2
NetworkTail == 30
ElementCap == 50
RecentTail == 15
RecentWindow == 10

\* ------------------------------------------------------------------ inputs
Urls == {"https://example.com"}
Tasks == {"find the price"}
Budgets == (-1)..MaxBudget
\* What the structural query of EXTRACT can return from the page.
PageData == {<<"Price">>, <<"Price", "9.99">>}
ValidKinds == {"CLICK", "SCROLL", "EXTRACT", "WAIT", "DONE"}
NoReply == [kind |-> "none"]
Today == "2026-01-01"

\* ------------------------------------------------------------ Python values
Ret(v) == [exc |-> "none", val |-> v]
Raise(e) == [exc |-> e, val |-> "none"]

\* JSON values as json.loads returns them: a dict, a str (which may or may not
\* contain the substring "type"), a number, or None.
Obj(d) == [t |-> "object", v |-> d]
JStr(hasType) == [t |-> "string", has_type |-> hasType]
JNum == [t |-> "number"]
JNull == [t |-> "null"]

\* dict.get(key, default)
Get(d, key, default) == IF key \in DOMAIN d THEN d[key] ELSE default

\* Python's `key in j`: dict membership, substring test on a str, TypeError on
\* a number or None.
Contains(j, key) ==
  CASE j.t = "object" -> Ret(key \in DOMAIN j.v)
    [] j.t = "string" -> Ret(j.has_type)
    [] OTHER -> Raise("TypeError")

\* Python's j[key] with a string key: the value for a dict that has the key,
\* KeyError for one that has not, TypeError for anything else.
Subscript(j, key) ==
  CASE j.t = "object" /\ key \in DOMAIN j.v -> Ret(j.v[key])
    [] j.t = "object" -> Raise("KeyError")
    [] OTHER -> Raise("TypeError")

\* s[-n:]
Last_n(s, n) == IF Len(s) <= n THEN s ELSE SubSeq(s, Len(s) - n + 1, Len(s))

\* [x for x in s if x['type'] == ty]
RECURSIVE OfType(_, _)
OfType(s, ty) ==
  IF s = <<>> THEN <<>>
  ELSE IF Head(s).type = ty THEN <<Head(s)>> \o OfType(Tail(s), ty)
  ELSE OfType(Tail(s), ty)

\* ----------------------------------------------------- the language model
\* A reply of the model endpoint: the request raised or timed out ("error"),
\* the response text is not JSON ("text"), or it is the JSON value `value`.
ErrorReplies == {[kind |-> "error"], [kind |-> "text"]}
JsonReply(j) == [kind |-> "json", value |-> j]

\* json.loads(response.json()['response'])
Loads(reply) ==
  IF reply.kind = "json" THEN Ret(reply.value) ELSE Raise(reply.kind)

ModelGoal ==
  [primary_goal |-> "get the price", data_fields |-> <<"price">>,
   success_criteria |-> "price seen", expected_obstacles |-> <<"paywall">>,
   priority_actions |-> <<"navigate to data section">>]
PlanReplies ==
  ErrorReplies \cup
  {JsonReply(Obj(ModelGoal)), JsonReply(Obj([note |-> "no plan"]))}

ModelActions ==
  {[type |-> "CLICK", reasoning |-> "model", confidence |-> 9, element_index |-> i] :
     i \in 0..MaxElems}
  \cup {[type |-> "SCROLL", reasoning |-> "model", confidence |-> 9,
         scroll_direction |-> d] : d \in {"down", "up"}}
  \cup {[type |-> k, reasoning |-> "model", confidence |-> 9] :
         k \in {"EXTRACT", "WAIT", "DONE", "HOVER"}}
DecideReplies ==
  ErrorReplies
  \cup {JsonReply(Obj(a)) : a \in ModelActions}
  \cup {JsonReply(Obj([reasoning |-> "model", confidence |-> 9])),
        JsonReply(JStr(TRUE)), JsonReply(JStr(FALSE)), JsonReply(JNum)}

ModelFinal(u) ==
  [primary_data |-> "model data",
   metadata |-> [source_url |-> u, extraction_date |-> Today],
   confidence |-> 9]
FinalReplies(u) ==
  ErrorReplies \cup
  {JsonReply(Obj(ModelFinal(u))), JsonReply(Obj([note |-> "no data"]))}

\* ------------------------------------------------------------- the browser
\* Outcome of the browser calls of one capture_state: the screenshot raises,
\* a later page call (evaluate, title) raises, or all of them return.
CaptureResponses == {[exc |-> "screenshot"], [exc |-> "evaluate"], [exc |-> "none"]}

\* Outcome of the browser calls of one execute_action, by action kind:
\* page.evaluate raises, or it returns (n_clickable: how many candidates the
\* CLICK query finds; data: what the EXTRACT query returns) and the
\* network-idle wait that follows either succeeds or times out.
ExecResponses(kind) ==
  CASE kind = "CLICK" ->
         {[exc |-> "evaluate"]} \cup
         {[exc |-> "none", n_clickable |-> n, idle |-> b] :
            n \in 0..MaxElems, b \in BOOLEAN}
    [] kind = "SCROLL" -> {[exc |-> "evaluate"], [exc |-> "none"]}
    [] kind = "EXTRACT" ->
         {[exc |-> "evaluate"]} \cup {[exc |-> "none", data |-> d] : d \in PageData}
    [] kind = "WAIT" -> {[exc |-> "none", idle |-> b] : b \in BOOLEAN}
    [] OTHER -> {[exc |-> "none"]}

\* ------------------------------------------------------------------- state
VARIABLES
  pc,              \* where run() is: start, page, plan, navigate, loop, decide,
                   \* execute, final, close, returned
  url, task, max_steps,
  step, extraction_goal, extracted_data, action_history,
  network_logs, console_logs, screenshots,
  state,           \* run's local `state` (the last PageState)
  action,          \* run's local `action` (what decide_action returned)
  final_data,      \* run's local `final_data`
  result,          \* what run() returned
  playwright,      \* the async_playwright() context: idle, running, stopped
  browser,         \* the launched browser: none, open, closed
  model_reply,     \* history variable: the model's reply to the last call
  page_reply,      \* history variable: the browser's outcome in the last
                   \* execute_action
  calls,           \* history variable: calls made so far, per component
  heap,            \* the list objects of the WebAgent instances of one process
  agents,          \* those instances: their fields, holding references into
                   \* the heap, and (history) the operations each has done
  dom,             \* the candidate elements of the page, in document order
  observation,     \* the `elements` of the last PageState, once captured
  clicked,         \* history variable: the last CLICK's index and the
                   \* element its script clicked
  clock,           \* time.time()
  loading,         \* decide_action's local `loading`, once computed
  reruns,          \* how many times run() was called again on the instance
  before,          \* history variable: the instance's attributes and the
                   \* calls made, as the previous call of run() left them
  scraper,         \* the VisionScraper instance: url, task
  scrape_pc,       \* where VisionScraper.scrape() is: start, context, page,
                   \* goto, wait, screenshot, evaluate, chat, parse, finally,
                   \* exit, returned
  handles,         \* scrape's locals browser, context, page: none, open, closed
  closed,          \* history variable: the handles closed so far, in order
  page_text,       \* scrape's local `page_text`
  content,         \* scrape's local `content` (the model's output)
  pending,         \* what scrape is about to deliver: a return value or a
                   \* raised exception
  scrape_result    \* what scrape() returned

run_vars ==
  <<pc, url, task, max_steps, step, extraction_goal, extracted_data,
    action_history, network_logs, console_logs, screenshots, state, action,
    final_data, result, playwright, browser, model_reply, page_reply, calls>>

page_vars == <<dom, observation, clicked>>
clock_vars == <<clock, loading>>
rerun_vars == <<reruns, before>>
vision_vars ==
  <<scraper, scrape_pc, handles, closed, page_text, content, pending,
    scrape_result>>

vars == <<run_vars, heap, agents, page_vars, clock_vars, rerun_vars, vision_vars>>

NoCalls ==
  [plan |-> 0, navigate |-> 0, capture |-> 0, decide |-> 0, execute |-> 0,
   final |-> 0, model_ok |-> 0]
Count(c, k) == [c EXCEPT ![k] = @ + 1]
\* model_ok counts the model calls that returned parseable JSON.
Answered(c, reply) == IF reply.kind = "json" THEN Count(c, "model_ok") ELSE c

\* ------------------------------------------------------- WebAgent objects
\* The instances that run side by side in one process.
Agents == {"a", "b"}

\* The list fields __init__ binds: extracted_data, action_history,
\* network_logs, console_logs, screenshots.
ListFields == 5

\* A list per field shared by all instances, as a class attribute would be.
NewList_Shared(h) == IF Len(h) >= ListFields THEN Len(h) + 1 - ListFields ELSE Len(h) + 1

\* Evaluating `[]`: the reference of a list object no one else holds.
NewList(h) == Len(h) + 1

\* `self.f = []` for one field: the heap with the new list, and its reference.
Alloc(h) == [heap |-> Append(h, <<>>), ref |-> NewList(h)]

Unborn ==
  [born |-> FALSE, step |-> 0, extracted_data |-> 0, action_history |-> 0,
   network_logs |-> 0, console_logs |-> 0, screenshots |-> 0, ops |-> <<>>]

\* __init__: the step counter and five new lists.
WebAgent(h) ==
  LET e == Alloc(h)
      a == Alloc(e.heap)
      n == Alloc(a.heap)
      c == Alloc(n.heap)
      s == Alloc(c.heap)
  IN  [heap |-> s.heap,
       self |-> [born |-> TRUE, step |-> 0, extracted_data |-> e.ref,
                 action_history |-> a.ref, network_logs |-> n.ref,
                 console_logs |-> c.ref, screenshots |-> s.ref, ops |-> <<>>]]

\* ------------------------------------------------------------ the Planner
DefaultGoal(t) ==
  [primary_goal |-> t, data_fields |-> <<"main content">>,
   success_criteria |-> "data extracted",
   expected_obstacles |-> <<"cookie banner">>,
   priority_actions |-> <<"dismiss popups", "extract data">>]

\* plan_extraction without its except clause.
plan_extraction_NoFallback(t, reply) == Loads(reply)

\* plan_extraction: the parsed reply, or the default goal when the request or
\* json.loads raised.
plan_extraction(t, reply) ==
  LET r == Loads(reply)
  IN  IF r.exc = "none" THEN Ret(r.val) ELSE Ret(Obj(DefaultGoal(t)))

\* ----------------------------------------------------- the State Observer
\* The PageState of capture_state; the screenshot and the page text are
\* opaque, the candidate elements reach only the prompt.
PageState(u, s) == [screenshot |-> "png", url |-> u, step |-> s]

\* A capture that archives nothing.
capture_state_NoArchive(u, s, resp) ==
  CASE resp.exc = "screenshot" -> [exc |-> "screenshot", val |-> "none", shots |-> <<>>]
    [] resp.exc = "evaluate" -> [exc |-> "evaluate", val |-> "none", shots |-> <<>>]
    [] OTHER -> [exc |-> "none", val |-> PageState(u, s), shots |-> <<>>]

\* capture_state: `shots` is what it appended to self.screenshots before it
\* returned or raised.
capture_state(u, s, resp) ==
  CASE resp.exc = "screenshot" -> [exc |-> "screenshot", val |-> "none", shots |-> <<>>]
    [] resp.exc = "evaluate" -> [exc |-> "evaluate", val |-> "none", shots |-> <<"png">>]
    [] OTHER -> [exc |-> "none", val |-> PageState(u, s), shots |-> <<"png">>]

\* --------------------------------------------------- the Action Selector
MissingKindDecision ==
  [type |-> "EXTRACT", reasoning |-> "fallback", confidence |-> MissingKindConfidence]
DecisionErrorDecision ==
  [type |-> "EXTRACT", reasoning |-> "Error in decision",
   confidence |-> DecisionErrorConfidence]

decide_action(reply) ==
  LET r == Loads(reply)
  IN  IF r.exc # "none" THEN Ret(Obj(DecisionErrorDecision))
      ELSE LET has == Contains(r.val, "type")
           IN  IF has.exc # "none" THEN Ret(Obj(DecisionErrorDecision))
               ELSE IF ~has.val THEN Ret(Obj(MissingKindDecision))
               ELSE Ret(r.val)

\* --------------------------------------------------- the Action Executor
\* page.wait_for_load_state('networkidle', timeout): returns when the network
\* idles in time, raises otherwise.
wait_for_load_state(idle) == IF idle THEN Ret("idle") ELSE Raise("TimeoutError")

\* A stability wait without its except clause.
wait_for_stability_Propagates(idle) == wait_for_load_state(idle)

\* _wait_for_stability: a timeout of the network-idle wait is swallowed by
\* the bare except, which sleeps and returns; the value is the time slept.
wait_for_stability(idle) ==
  LET w == wait_for_load_state(idle)
  IN  IF w.exc = "none" THEN Ret(0) ELSE Ret(StabilitySleep)

\* The JavaScript of CLICK: the element at position idx among the candidates
\* with an offsetParent is clicked if there is one; its return value.
ClickScript(idx, n_clickable) == idx < n_clickable

\* window.scrollBy(0, distance)
ScrollBy(direction) == IF direction = "down" THEN ScrollDistance ELSE -ScrollDistance

\* An EXTRACT that keeps nothing.
Fragments_None(data) == <<>>

\* self.extracted_data.append(data): what one EXTRACT adds.
Fragments(data) == <<data>>

\* One outcome of execute_action's try block: the exception raised or the
\* value returned, what was appended to self.extracted_data, and what
\* happened in the page.
Out(e, v, x, p) == [exc |-> e, val |-> v, extracted |-> x, page |-> p]

ExecuteBody(a, resp) ==
  CASE a.type = "CLICK" ->
         LET idx == Get(a, "element_index", 0)
         IN  IF resp.exc # "none" THEN Out(resp.exc, "none", <<>>, [raised |-> resp.exc])
             ELSE LET w == wait_for_stability(resp.idle)
                      p == [clicked |-> ClickScript(idx, resp.n_clickable),
                            idle |-> resp.idle]
                  IN  IF w.exc # "none" THEN Out(w.exc, "none", <<>>, p)
                      ELSE Out("none", [status |-> "clicked", element |-> idx], <<>>, p)
    [] a.type = "SCROLL" ->
         LET direction == Get(a, "scroll_direction", "down")
         IN  IF resp.exc # "none" THEN Out(resp.exc, "none", <<>>, [raised |-> resp.exc])
             ELSE Out("none", [status |-> "scrolled", direction |-> direction], <<>>,
                      [scrolled |-> ScrollBy(direction)])
    [] a.type = "EXTRACT" ->
         IF resp.exc # "none" THEN Out(resp.exc, "none", <<>>, [raised |-> resp.exc])
         ELSE Out("none", [status |-> "extracted", items |-> Len(resp.data)],
                  Fragments(resp.data), [evaluated |-> TRUE])
    [] a.type = "WAIT" ->
         LET w == wait_for_stability(resp.idle)
             p == [waited |-> WaitDuration, idle |-> resp.idle]
         IN  IF w.exc # "none" THEN Out(w.exc, "none", <<>>, p)
             ELSE Out("none", [status |-> "waited", duration |-> WaitDuration], <<>>, p)
    [] a.type = "DONE" -> Out("none", [status |-> "completed"], <<>>, [untouched |-> TRUE])
    [] OTHER ->
         Out("none", [status |-> "unknown_action", action |-> a.type], <<>>,
             [untouched |-> TRUE])

\* execute_action without its except clause.
execute_action_NoCatch(a, resp) == ExecuteBody(a, resp)

execute_action(a, resp) ==
  LET b == ExecuteBody(a, resp)
  IN  IF b.exc = "none" THEN b
      ELSE Out("none", [status |-> "error", error |-> b.exc], b.extracted, b.page)

\* ----------------------------------------------------------- the Finalizer
\* A fallback that loses the first fragment.
FinalFallback_DropsFirst(data, u, e) ==
  [primary_data |-> IF data = <<>> THEN data ELSE Tail(data),
   metadata |-> [source_url |-> u, extraction_date |-> Today,
                 extraction_method |-> "fallback"],
   confidence |-> FinalFallbackConfidence,
   error |-> e]

FinalFallback(data, u, e) ==
  [primary_data |-> data,
   metadata |-> [source_url |-> u, extraction_date |-> Today,
                 extraction_method |-> "fallback"],
   confidence |-> FinalFallbackConfidence,
   error |-> e]

\* final_extraction: its own capture_state, then one model call.
final_extraction(u, s, data, resp, reply) ==
  LET c == capture_state(u, s, resp)
  IN  IF c.exc # "none" THEN [exc |-> c.exc, val |-> "none", shots |-> c.shots]
      ELSE LET r == Loads(reply)
           IN  [exc |-> "none",
                val |-> IF r.exc = "none" THEN r.val
                        ELSE Obj(FinalFallback(data, c.val.url, r.exc)),
                shots |-> c.shots]

\* ------------------------------------------------------------------- run
\* The attributes of a WebAgent that run works on (lines 24-32), with the
\* calls made so far.
Attributes(n, history, fragments, shots, network, console, made) ==
  [step |-> n, action_history |-> history, extracted_data |-> fragments,
   screenshots |-> shots, network_logs |-> network, console_logs |-> console,
   calls |-> made]

\* agent_server.py, VisionScraper.__init__ (start_time and max_steps are
\* read by nothing that scrape decides on).
VisionScraper(u, t) == [url |-> u, task |-> t]
NoHandles == [browser |-> "none", context |-> "none", page |-> "none"]
Nothing == [kind |-> "nothing"]

Init ==
  /\ pc = "start"
  /\ url \in Urls
  /\ task \in Tasks
  /\ max_steps \in Budgets
  /\ step = 0
  /\ extraction_goal = JNull
  /\ extracted_data = <<>>
  /\ action_history = <<>>
  /\ network_logs = <<>>
  /\ console_logs = <<>>
  /\ screenshots = <<>>
  /\ state = [unbound |-> TRUE]
  /\ action = JNull
  /\ final_data = JNull
  /\ result = [status |-> "none"]
  /\ playwright = "idle"
  /\ browser = "none"
  /\ model_reply = NoReply
  /\ page_reply = [untouched |-> TRUE]
  /\ calls = NoCalls
  /\ heap = <<>>
  /\ agents = [i \in Agents |-> Unborn]
  /\ dom = <<>>
  /\ observation = [captured |-> FALSE, elements |-> <<>>]
  /\ clicked = [done |-> FALSE]
  /\ clock = 0
  /\ loading = [computed |-> FALSE]
  /\ reruns = 0
  /\ before = Attributes(0, <<>>, <<>>, <<>>, <<>>, <<>>, NoCalls)
  /\ scraper = VisionScraper(url, task)
  /\ scrape_pc = "start"
  /\ handles = NoHandles
  /\ closed = <<>>
  /\ page_text = JNull
  /\ content = JNull
  /\ pending = Nothing
  /\ scrape_result = [status |-> "none"]

\* An except clause that reports success.
ErrorResult_ClaimsSuccess(e) ==
  [status |-> "error", url |-> url, task |-> task, error |-> e,
   steps_taken |-> step, action_history |-> action_history, success |-> TRUE]

ErrorResult(e) ==
  [status |-> "error", url |-> url, task |-> task, error |-> e,
   steps_taken |-> step, action_history |-> action_history, success |-> FALSE]

\* A scope exit that leaves a launched browser running.
ExitScope_Leaks(b) == b

\* Leaving `async with async_playwright()`: the driver is stopped, and a
\* browser it launched goes down with it.
ExitScope(b) == IF b = "open" THEN "closed" ELSE b

\* An exception inside run: it leaves the `async with` block and reaches the
\* except clause, which returns the error result.
Fail(e) ==
  /\ result' = ErrorResult(e)
  /\ pc' = "returned"
  /\ playwright' = "stopped"
  /\ browser' = ExitScope(browser)

\* The loop test written with <= .
LoopCondition_OffByOne(s, n) == s <= n

\* while self.step < self.max_steps
LoopCondition(s, n) == s < n

\* A loop that does not stop on DONE.
IsDone_Never(kind) == FALSE

\* if action['type'] == 'DONE': break
IsDone(kind) == kind = "DONE"

\* Lines 37-43: start playwright and launch the browser.
Launch ==
  /\ pc = "start"
  /\ \E ok \in BOOLEAN :
       IF ok
       THEN /\ pc' = "page"
            /\ playwright' = "running"
            /\ browser' = "open"
            /\ UNCHANGED <<result, page_reply>>
       ELSE /\ Fail("launch")
            /\ page_reply' = [created |-> FALSE]
  /\ UNCHANGED <<page_vars, clock_vars, rerun_vars, vision_vars, heap, agents, url, task, max_steps, step, extraction_goal, extracted_data,
                 action_history, network_logs, console_logs, screenshots, state,
                 action, final_data, model_reply, calls>>

\* Lines 45-52: open a context and a page in the launched browser, attach
\* the listeners.
NewPage ==
  /\ pc = "page"
  /\ \E ok \in BOOLEAN :
       IF ok
       THEN /\ pc' = "plan"
            /\ UNCHANGED <<result, playwright, browser, page_reply>>
       ELSE /\ Fail("new_page")
            /\ page_reply' = [created |-> FALSE]
  /\ UNCHANGED <<page_vars, clock_vars, rerun_vars, vision_vars, heap, agents, url, task, max_steps, step, extraction_goal, extracted_data,
                 action_history, network_logs, console_logs, screenshots, state,
                 action, final_data, model_reply, calls>>

\* Line 56.
Plan ==
  /\ pc = "plan"
  /\ \E reply \in PlanReplies :
       LET g == plan_extraction(task, reply)
       IN  /\ model_reply' = reply
           /\ calls' = Answered(Count(calls, "plan"), reply)
           /\ IF g.exc = "none"
              THEN /\ extraction_goal' = g.val
                   /\ pc' = "navigate"
                   /\ UNCHANGED <<result, playwright, browser>>
              ELSE /\ Fail(g.exc)
                   /\ UNCHANGED extraction_goal
  /\ UNCHANGED <<page_vars, clock_vars, rerun_vars, vision_vars, heap, agents, url, task, max_steps, step, extracted_data, action_history,
                 network_logs, console_logs, screenshots, state, action,
                 final_data, page_reply>>

\* A navigation whose failure is swallowed.
goto_Swallows(ok) == Ret("loaded")

\* page.goto(self.url, wait_until='domcontentloaded', timeout=30000)
goto(ok) == IF ok THEN Ret("loaded") ELSE Raise("goto")

\* Lines 60-61: page.goto, then the tolerant stability wait.
Navigate ==
  /\ pc = "navigate"
  /\ \E ok \in BOOLEAN, idle \in BOOLEAN :
       LET g == goto(ok)
           w == IF g.exc = "none" THEN wait_for_stability(idle) ELSE g
       IN  /\ page_reply' = IF ok THEN [loaded |-> TRUE, idle |-> idle]
                                  ELSE [loaded |-> FALSE]
           /\ IF w.exc = "none"
              THEN /\ pc' = "loop"
                   /\ UNCHANGED <<result, playwright, browser>>
              ELSE Fail(w.exc)
  /\ calls' = Count(calls, "navigate")
  /\ UNCHANGED <<page_vars, clock_vars, rerun_vars, vision_vars, heap, agents, url, task, max_steps, step, extraction_goal, extracted_data,
                 action_history, network_logs, console_logs, screenshots, state,
                 action, final_data, model_reply>>

\* Lines 65-67: the loop test and, inside the loop, capture_state.
Capture ==
  /\ pc = "loop"
  /\ LoopCondition(step, max_steps)
  /\ \E resp \in CaptureResponses :
       LET c == capture_state(url, step, resp)
       IN  /\ screenshots' = screenshots \o c.shots
           /\ page_reply' = [captured |-> resp.exc]
           /\ IF c.exc = "none"
              THEN /\ state' = c.val
                   /\ pc' = "decide"
                   /\ UNCHANGED <<result, playwright, browser>>
              ELSE /\ Fail(c.exc)
                   /\ UNCHANGED state
  /\ calls' = Count(calls, "capture")
  /\ model_reply' = NoReply
  /\ UNCHANGED <<page_vars, clock_vars, rerun_vars, vision_vars, heap, agents, url, task, max_steps, step, extraction_goal, extracted_data,
                 action_history, network_logs, console_logs, action, final_data>>

\* A loop that executes whatever was decided.
AfterDecision_ExecutesAll(kind) == "execute"

\* Lines 73-78: DONE breaks out of the loop, anything else is executed.
AfterDecision(kind) == IF IsDone(kind) THEN "final" ELSE "execute"

\* Lines 70-75: decide_action, the print that reads action['type'], and the
\* DONE test.
Decide ==
  /\ pc = "decide"
  /\ \E reply \in DecideReplies :
       LET d == decide_action(reply)
           kind == IF d.exc = "none" THEN Subscript(d.val, "type") ELSE d
       IN  /\ model_reply' = reply
           /\ calls' = Answered(Count(calls, "decide"), reply)
           /\ action' = IF d.exc = "none" THEN d.val ELSE action
           /\ IF kind.exc # "none" THEN Fail(kind.exc)
              ELSE /\ pc' = AfterDecision(kind.val)
                   /\ UNCHANGED <<result, playwright, browser>>
  /\ UNCHANGED <<page_vars, clock_vars, rerun_vars, vision_vars, heap, agents, url, task, max_steps, step, extraction_goal, extracted_data,
                 action_history, network_logs, console_logs, screenshots, state,
                 final_data, page_reply>>

\* An iteration that does not count itself.
NextStep_Stuck(s) == s

\* self.step += 1
NextStep(s) == s + 1

\* A record numbered from one.
ActionRecord_FromOne(s, a, r) ==
  [step |-> s + 1, action |-> a, result |-> r,
   network_events |-> Len(network_logs),
   console_errors |-> Len(OfType(console_logs, "error"))]

ActionRecord(s, a, r) ==
  [step |-> s, action |-> a, result |-> r,
   network_events |-> Len(network_logs),
   console_errors |-> Len(OfType(console_logs, "error"))]

\* Lines 78-89: execute_action, the history entry, the step counter.
Execute ==
  /\ pc = "execute"
  /\ \E resp \in ExecResponses(action.v.type) :
       LET r == execute_action(action.v, resp)
       IN  /\ extracted_data' = extracted_data \o r.extracted
           /\ page_reply' = r.page
           /\ IF r.exc = "none"
              THEN /\ action_history' =
                        Append(action_history, ActionRecord(step, action.v, r.val))
                   /\ step' = NextStep(step)
                   /\ pc' = "loop"
                   /\ UNCHANGED <<result, playwright, browser>>
              ELSE /\ Fail(r.exc)
                   /\ UNCHANGED <<action_history, step>>
  /\ calls' = Count(calls, "execute")
  /\ UNCHANGED <<page_vars, clock_vars, rerun_vars, vision_vars, heap, agents, url, task, max_steps, extraction_goal, network_logs,
                 console_logs, screenshots, state, action, final_data, model_reply>>

\* A loop that may be left while budget remains.
ExitLoop_Early ==
  /\ pc = "loop"
  /\ pc' = "final"
  /\ UNCHANGED <<page_vars, clock_vars, rerun_vars, vision_vars, heap, agents, url, task, max_steps, step, extraction_goal, extracted_data,
                 action_history, network_logs, console_logs, screenshots, state,
                 action, final_data, result, playwright, browser, model_reply,
                 page_reply, calls>>

\* Line 65, the loop test failing: the budget is used up.
ExitLoop ==
  /\ pc = "loop"
  /\ ~LoopCondition(step, max_steps)
  /\ pc' = "final"
  /\ UNCHANGED <<page_vars, clock_vars, rerun_vars, vision_vars, heap, agents, url, task, max_steps, step, extraction_goal, extracted_data,
                 action_history, network_logs, console_logs, screenshots, state,
                 action, final_data, result, playwright, browser, model_reply,
                 page_reply, calls>>

\* Line 92.
Finalize ==
  /\ pc = "final"
  /\ \E resp \in CaptureResponses :
       \E reply \in IF resp.exc = "none" THEN FinalReplies(url) ELSE {NoReply} :
         LET f == final_extraction(url, step, extracted_data, resp, reply)
         IN  /\ screenshots' = screenshots \o f.shots
             /\ model_reply' = reply
             /\ calls' = Answered(Count(calls, "final"), reply)
             /\ IF f.exc = "none"
                THEN /\ final_data' = f.val
                     /\ pc' = "close"
                     /\ UNCHANGED <<result, playwright, browser>>
                ELSE /\ Fail(f.exc)
                     /\ UNCHANGED final_data
  /\ page_reply' = [untouched |-> TRUE]
  /\ UNCHANGED <<page_vars, clock_vars, rerun_vars, vision_vars, heap, agents, url, task, max_steps, step, extraction_goal, extracted_data,
                 action_history, network_logs, console_logs, state, action>>

OkResult ==
  [status |-> "ok", url |-> url, task |-> task,
   extraction_goal |-> extraction_goal, extracted_data |-> final_data,
   steps_taken |-> step, action_history |-> action_history,
   network_logs |-> Last_n(network_logs, NetworkTail),
   console_errors |-> OfType(console_logs, "error"),
   screenshots |-> Len(screenshots), success |-> TRUE]

\* Lines 94-108: close the browser and return the result.
Close ==
  /\ pc = "close"
  /\ browser' = "closed"
  /\ result' = OkResult
  /\ playwright' = "stopped"
  /\ pc' = "returned"
  /\ UNCHANGED <<page_vars, clock_vars, rerun_vars, vision_vars, heap, agents, url, task, max_steps, step, extraction_goal, extracted_data,
                 action_history, network_logs, console_logs, screenshots, state,
                 action, final_data, model_reply, page_reply, calls>>

\* ------------------------------------------------------- the page listeners
\* _setup_logging: each page event appends one entry to one of the two logs.
NetworkEntry(kind) == [type |-> kind, url |-> url]
ConsoleEntry(kind) == [type |-> kind, text |-> "text"]

PageLive == pc \in {"navigate", "loop", "decide", "execute", "final", "close"}
EventsLeft ==
  /\ max_steps >= 0
  /\ Len(network_logs) + Len(console_logs) + 2 * max_steps < MaxEvents

\* A listener that overwrites the log with the new entry.
LogAppend_Replaces(log, e) == <<e>>

\* self.network_logs.append(...) / self.console_logs.append(...)
LogAppend(log, e) == Append(log, e)

NetworkEvent ==
  /\ PageLive /\ EventsLeft
  /\ \E kind \in {"request", "response", "failed"} :
       network_logs' = LogAppend(network_logs, NetworkEntry(kind))
  /\ UNCHANGED <<page_vars, clock_vars, rerun_vars, vision_vars, heap, agents, pc, url, task, max_steps, step, extraction_goal, extracted_data,
                 action_history, console_logs, screenshots, state, action,
                 final_data, result, playwright, browser, model_reply,
                 page_reply, calls>>

\* 'console' events carry the message's own type; 'pageerror' is logged as
\* page_error.
ConsoleEvent ==
  /\ PageLive /\ EventsLeft
  /\ \E kind \in {"error", "log", "page_error"} :
       console_logs' = LogAppend(console_logs, ConsoleEntry(kind))
  /\ UNCHANGED <<page_vars, clock_vars, rerun_vars, vision_vars, heap, agents, pc, url, task, max_steps, step, extraction_goal, extracted_data,
                 action_history, network_logs, screenshots, state, action,
                 final_data, result, playwright, browser, model_reply,
                 page_reply, calls>>

Next ==
  \/ Launch
  \/ NewPage
  \/ Plan
  \/ Navigate
  \/ Capture
  \/ Decide
  \/ Execute
  \/ ExitLoop
  \/ Finalize
  \/ Close
  \/ NetworkEvent
  \/ ConsoleEvent

Spec == Init /\ [][Next]_vars

\* The steps of run itself, as opposed to the page's events.
RunStep ==
  \/ Launch
  \/ NewPage
  \/ Plan
  \/ Navigate
  \/ Capture
  \/ Decide
  \/ Execute
  \/ ExitLoop
  \/ Finalize
  \/ Close

\* Every external call returns or fails: a step of run that can be taken is
\* eventually taken.
LiveSpec == Init /\ [][Next]_vars /\ WF_vars(RunStep)

\* ------------------------------------------- two instances side by side
\* The writes a run makes to its instance, taken one at a time so that the
\* writes of two runs interleave in every way.
Room(i) == agents[i].born /\ Len(agents[i].ops) < MaxOps
Did(i, kind, arg) == [agents EXCEPT ![i].ops = Append(@, [kind |-> kind, arg |-> arg])]

\* WebAgent(url, task, max_steps)
Construct ==
  /\ \E i \in Agents :
       /\ ~agents[i].born
       /\ LET w == WebAgent(heap)
          IN  /\ heap' = w.heap
              /\ agents' = [agents EXCEPT ![i] = w.self]
  /\ UNCHANGED <<run_vars, page_vars, clock_vars, rerun_vars, vision_vars>>

\* capture_state: self.screenshots.append(screenshot_b64)
AgentCapture ==
  /\ \E i \in Agents :
       /\ Room(i)
       /\ heap' = [heap EXCEPT ![agents[i].screenshots] = Append(@, "png")]
       /\ agents' = Did(i, "capture", "png")
  /\ UNCHANGED <<run_vars, page_vars, clock_vars, rerun_vars, vision_vars>>

\* execute_action, EXTRACT: self.extracted_data.append(data)
AgentExtract ==
  /\ \E i \in Agents, d \in PageData :
       /\ Room(i)
       /\ heap' = [heap EXCEPT ![agents[i].extracted_data] = Append(@, d)]
       /\ agents' = Did(i, "extract", d)
  /\ UNCHANGED <<run_vars, page_vars, clock_vars, rerun_vars, vision_vars>>

\* run: self.action_history.append({...}); self.step += 1
AgentRecord ==
  /\ \E i \in Agents :
       /\ Room(i)
       /\ heap' = [heap EXCEPT ![agents[i].action_history] =
                                 Append(@, [step |-> agents[i].step])]
       /\ agents' = [Did(i, "record", "step") EXCEPT ![i].step = NextStep(@)]
  /\ UNCHANGED <<run_vars, page_vars, clock_vars, rerun_vars, vision_vars>>

\* The listeners of the instance's page.
AgentNetworkEvent ==
  /\ \E i \in Agents, kind \in {"request", "response"} :
       /\ Room(i)
       /\ heap' = [heap EXCEPT ![agents[i].network_logs] =
                                 LogAppend(@, NetworkEntry(kind))]
       /\ agents' = Did(i, "network", kind)
  /\ UNCHANGED <<run_vars, page_vars, clock_vars, rerun_vars, vision_vars>>

AgentConsoleEvent ==
  /\ \E i \in Agents :
       /\ Room(i)
       /\ heap' = [heap EXCEPT ![agents[i].console_logs] =
                                 LogAppend(@, ConsoleEntry("error"))]
       /\ agents' = Did(i, "console", "error")
  /\ UNCHANGED <<run_vars, page_vars, clock_vars, rerun_vars, vision_vars>>

PairInit == Init /\ max_steps = 0

PairNext ==
  \/ Construct
  \/ AgentCapture
  \/ AgentExtract
  \/ AgentRecord
  \/ AgentNetworkEvent
  \/ AgentConsoleEvent

PairSpec == PairInit /\ [][PairNext]_vars

\* ------------------------------------------- the two element queries
\* A candidate element matched by the selector list: `attached` is
\* offsetParent !== null, `sized` is a bounding rectangle of positive width
\* and height; id is its position in the document.
CandidateKinds ==
  {[attached |-> TRUE, sized |-> TRUE], [attached |-> TRUE, sized |-> FALSE],
   [attached |-> FALSE, sized |-> FALSE]}
Candidate(k, kind) == [id |-> k, attached |-> kind.attached, sized |-> kind.sized]

\* Array.slice(0, n)
First_n(s, n) == SubSeq(s, 1, IF Len(s) < n THEN Len(s) ELSE n)

IsVisible(e) == e.visible
IsAttached(e) == e.attached

\* The element query of capture_state: the first 50 candidates, each given
\* its position among them as index, and then the invisible ones dropped.
ObserverQuery(d) ==
  LET sliced == First_n(d, ElementCap)
      mapped == [k \in 1..Len(sliced) |->
                   [index |-> k - 1, el |-> sliced[k].id,
                    visible |-> sliced[k].attached /\ sliced[k].sized]]
  IN  SelectSeq(mapped, IsVisible)

\* The element query of CLICK: all candidates with an offsetParent.
ClickQuery(d) == SelectSeq(d, IsAttached)

\* The element the CLICK script clicks: the id of the one at position idx of
\* its query, 0 when there is none.
ClickTarget(d, idx) ==
  LET c == ClickQuery(d)
  IN  IF ClickScript(idx, Len(c)) THEN c[idx + 1].id ELSE 0

\* The page is built, observed once, and then clicked without having changed.
AddCandidate ==
  /\ ~observation.captured
  /\ Len(dom) < MaxCands
  /\ \E kind \in CandidateKinds : dom' = Append(dom, Candidate(Len(dom) + 1, kind))
  /\ UNCHANGED <<run_vars, heap, agents, observation, clicked, clock_vars, rerun_vars, vision_vars>>

Observe ==
  /\ ~observation.captured
  /\ observation' = [captured |-> TRUE, elements |-> ObserverQuery(dom)]
  /\ UNCHANGED <<run_vars, heap, agents, dom, clicked, clock_vars, rerun_vars, vision_vars>>

Click ==
  /\ observation.captured
  /\ ~clicked.done
  /\ \E idx \in 0..MaxCands :
       clicked' = [done |-> TRUE, index |-> idx, target |-> ClickTarget(dom, idx)]
  /\ UNCHANGED <<run_vars, heap, agents, dom, observation, clock_vars, rerun_vars, vision_vars>>

PageInit == Init /\ max_steps = 0

PageNext ==
  \/ AddCandidate
  \/ Observe
  \/ Click

PageSpec == PageInit /\ [][PageNext]_vars

\* ------------------------------------------------- the loading flag
\* A network log entry as the listeners write it, with its time.
StampedEntry(kind, u, t) == [type |-> kind, url |-> u, timestamp |-> t]
Resources == {"/a", "/b"}

\* [log for log in logs if now - log['timestamp'] < 10]
RECURSIVE Within(_, _)
Within(logs, now) ==
  IF logs = <<>> THEN <<>>
  ELSE IF now - Head(logs).timestamp < RecentWindow
       THEN <<Head(logs)>> \o Within(Tail(logs), now)
       ELSE Within(Tail(logs), now)

\* recent_network: the last 15 entries that are younger than 10 seconds.
RecentNetwork(logs, now) == Within(Last_n(logs, RecentTail), now)

\* loading = len([n for n in recent_network if n['type'] == 'request']) > 0
Loading(logs, now) == Len(OfType(RecentNetwork(logs, now), "request")) > 0

\* Time passes, the page's traffic is logged, and decide_action computes
\* its flag from the log.
Tick ==
  /\ ~loading.computed
  /\ clock < MaxTicks * RecentWindow
  /\ clock' = clock + RecentWindow
  /\ UNCHANGED <<run_vars, heap, agents, page_vars, rerun_vars, vision_vars, loading>>

Traffic ==
  /\ ~loading.computed
  /\ Len(network_logs) < MaxTraffic
  /\ \E kind \in {"request", "response", "failed"}, u \in Resources :
       network_logs' = LogAppend(network_logs, StampedEntry(kind, u, clock))
  /\ UNCHANGED <<pc, url, task, max_steps, step, extraction_goal, extracted_data,
                 action_history, console_logs, screenshots, state, action,
                 final_data, result, playwright, browser, model_reply,
                 page_reply, calls, heap, agents, page_vars, clock_vars, rerun_vars, vision_vars>>

DecideLoading ==
  /\ ~loading.computed
  /\ loading' = [computed |-> TRUE, value |-> Loading(network_logs, clock)]
  /\ UNCHANGED <<run_vars, heap, agents, page_vars, rerun_vars, vision_vars, clock>>

LoadInit == Init /\ max_steps = 0

LoadNext ==
  \/ Tick
  \/ Traffic
  \/ DecideLoading

LoadSpec == LoadInit /\ [][LoadNext]_vars

\* ------------------------------------------- the telemetry of the result
\* A run of budget 0 whose page keeps emitting events: requests, stamped
\* with their order of arrival, and console errors.
LogTraffic ==
  /\ PageLive
  /\ Len(network_logs) < MaxLog
  /\ network_logs' =
       LogAppend(network_logs, StampedEntry("request", "/a", Len(network_logs)))
  /\ UNCHANGED <<pc, url, task, max_steps, step, extraction_goal, extracted_data,
                 action_history, console_logs, screenshots, state, action,
                 final_data, result, playwright, browser, model_reply,
                 page_reply, calls, heap, agents, page_vars, clock_vars, rerun_vars, vision_vars>>

LogConsole ==
  /\ PageLive
  /\ Len(console_logs) < MaxLog
  /\ console_logs' = LogAppend(console_logs, ConsoleEntry("error"))
  /\ UNCHANGED <<pc, url, task, max_steps, step, extraction_goal, extracted_data,
                 action_history, network_logs, screenshots, state, action,
                 final_data, result, playwright, browser, model_reply,
                 page_reply, calls, heap, agents, page_vars, clock_vars, rerun_vars, vision_vars>>

TailInit == Init /\ max_steps = 0

TailNext ==
  \/ Launch
  \/ NewPage
  \/ Plan
  \/ Navigate
  \/ ExitLoop
  \/ Finalize
  \/ Close
  \/ LogTraffic
  \/ LogConsole

TailSpec == TailInit /\ [][TailNext]_vars

\* ------------------------------------------- run called a second time
\* run assigns none of the attributes __init__ set before its loop reads
\* them (lines 34-65): a call starts on the attributes as it finds them.
\* A run that began by restoring what __init__ set.
RunEntry_Fresh(self) ==
  Attributes(0, <<>>, <<>>, <<>>, <<>>, <<>>, self.calls)
RunEntry(self) == self

\* Room left for one more call or page event.
RerunRoom == reruns + Len(network_logs) + Len(console_logs) < MaxRerunSize

\* run() is called again on the instance whose run has returned: its locals
\* are new, its attributes are what the call finds.
Rerun ==
  /\ pc = "returned"
  /\ RerunRoom
  /\ reruns' = reruns + 1
  /\ LET self == Attributes(step, action_history, extracted_data, screenshots,
                            network_logs, console_logs, calls)
         found == RunEntry(self)
     IN  /\ before' = self
         /\ step' = found.step
         /\ action_history' = found.action_history
         /\ extracted_data' = found.extracted_data
         /\ screenshots' = found.screenshots
         /\ network_logs' = found.network_logs
         /\ console_logs' = found.console_logs
  /\ pc' = "start"
  /\ state' = [unbound |-> TRUE]
  /\ action' = JNull
  /\ final_data' = JNull
  /\ result' = [status |-> "none"]
  /\ playwright' = "idle"
  /\ browser' = "none"
  /\ model_reply' = NoReply
  /\ page_reply' = [untouched |-> TRUE]
  /\ UNCHANGED <<url, task, max_steps, extraction_goal, calls, heap, agents,
                 page_vars, clock_vars, vision_vars>>

\* The page events of the calls, within the bound.
RerunEventsLeft == RerunRoom
RerunNetworkEvent == RerunEventsLeft /\ NetworkEvent
RerunConsoleEvent == RerunEventsLeft /\ ConsoleEvent

RerunInit == Init /\ max_steps = 1

RerunNext ==
  \/ Launch
  \/ NewPage
  \/ Plan
  \/ Navigate
  \/ Capture
  \/ Decide
  \/ Execute
  \/ ExitLoop
  \/ Finalize
  \/ Close
  \/ RerunNetworkEvent
  \/ RerunConsoleEvent
  \/ Rerun

RerunSpec == RerunInit /\ [][RerunNext]_vars

\* ------------------------------------------- the single-shot scraper
\* agent_server.py, VisionScraper.scrape: one page load, one screenshot, one
\* model call. The fields of the result that are clock readings (task_id,
\* timestamp, execution_time) are left out.
AbliteratedModel == "redule26/huihui_ai_qwen2.5-vl-7b-abliterated:latest"

\* A Python str of n characters, as page.evaluate returns the page's text.
Text(n) == [t |-> "string", len |-> n]
\* What `document.body.innerText` evaluates to: None, or a text, which may
\* be empty. (Line 78 accepts both in building the prompt, which has no
\* part in what scrape does next.)
PageTexts == {JNull} \cup {Text(n) : n \in 0..MaxText}

\* len(page_text)
len(text) == IF text.t = "string" THEN Ret(text.len) ELSE Raise("TypeError")

\* The model's output and what json.loads makes of it: these texts are JSON,
\* any other text is not.
JsonTexts ==
  [t \in {"{\"price\": \"9.99\"}", "42", "null"} |->
     CASE t = "42" -> JNum
       [] t = "null" -> JNull
       [] OTHER -> Obj([price |-> "9.99"])]
Content(text) == [t |-> "string", text |-> text]
Contents ==
  {Content(t) : t \in DOMAIN JsonTexts \cup {"The price is 9.99", ""}}
json_loads(c) ==
  IF c.t = "string" /\ c.text \in DOMAIN JsonTexts
  THEN Ret(JsonTexts[c.text])
  ELSE Raise("JSONDecodeError")

\* Lines 112-116: the model's output parsed, or wrapped when it does not parse.
extracted(c) ==
  LET parsed == json_loads(c)
  IN  IF parsed.exc = "none" THEN parsed.val ELSE Obj([raw_response |-> c])

\* Lines 122-142.
VisionOk(self, data, length) ==
  [status |-> "ok", success |-> TRUE, url |-> self.url,
   extraction_goal |-> self.task,
   extracted_data |->
     [primary_data |-> data,
      metadata |-> [source_url |-> self.url, extraction_method |-> "vision",
                    model |-> AbliteratedModel, page_text_length |-> length]],
   steps_taken |-> 1,
   action_history |-> <<"screenshot_capture", "vision_analysis">>,
   screenshots |-> 1]

\* Lines 149-156.
VisionFail(self, e) ==
  [status |-> "fail", success |-> FALSE, error |-> e, url |-> self.url]

Returning(v) == [kind |-> "return", value |-> v]
Raising(e) == [kind |-> "raise", exc |-> e]

\* Lines 144-147: the order in which the finally block closes the handles.
CloseOrder_BrowserFirst == <<"browser", "context", "page">>
CloseOrder == <<"page", "context", "browser">>

\* Leaving `async with async_playwright()`: the driver stops and takes with
\* it every handle still open.
Stop(h) == [k \in DOMAIN h |-> IF h[k] = "open" THEN "disposed" ELSE h[k]]

\* One awaited browser call of scrape: it returns and scrape goes on to
\* `next`, or it raises and scrape goes to `handler`.
Await(at, name, next, handler) ==
  /\ scrape_pc = at
  /\ \E ok \in BOOLEAN :
       IF ok
       THEN /\ scrape_pc' = next
            /\ UNCHANGED pending
       ELSE /\ scrape_pc' = handler
            /\ pending' = Raising(name)

\* Lines 53-59.
ScrapeLaunch ==
  /\ Await("start", "launch", "context", "exit")
  /\ handles' = IF scrape_pc' = "context"
                THEN [handles EXCEPT !.browser = "open"] ELSE handles
  /\ UNCHANGED <<run_vars, heap, agents, page_vars, clock_vars, rerun_vars,
                 scraper, closed, page_text, content, scrape_result>>

\* Lines 61-64.
ScrapeNewContext ==
  /\ Await("context", "new_context", "page", "exit")
  /\ handles' = IF scrape_pc' = "page"
                THEN [handles EXCEPT !.context = "open"] ELSE handles
  /\ UNCHANGED <<run_vars, heap, agents, page_vars, clock_vars, rerun_vars,
                 scraper, closed, page_text, content, scrape_result>>

\* Line 66.
ScrapeNewPage ==
  /\ Await("page", "new_page", "goto", "exit")
  /\ handles' = IF scrape_pc' = "goto"
                THEN [handles EXCEPT !.page = "open"] ELSE handles
  /\ UNCHANGED <<run_vars, heap, agents, page_vars, clock_vars, rerun_vars,
                 scraper, closed, page_text, content, scrape_result>>

\* Line 70.
ScrapeGoto ==
  /\ Await("goto", "goto", "wait", "finally")
  /\ UNCHANGED <<run_vars, heap, agents, page_vars, clock_vars, rerun_vars,
                 scraper, handles, closed, page_text, content, scrape_result>>

\* Line 71.
ScrapeWait ==
  /\ Await("wait", "wait_for_timeout", "screenshot", "finally")
  /\ UNCHANGED <<run_vars, heap, agents, page_vars, clock_vars, rerun_vars,
                 scraper, handles, closed, page_text, content, scrape_result>>

\* Line 74.
ScrapeScreenshot ==
  /\ Await("screenshot", "screenshot", "evaluate", "finally")
  /\ UNCHANGED <<run_vars, heap, agents, page_vars, clock_vars, rerun_vars,
                 scraper, handles, closed, page_text, content, scrape_result>>

\* Lines 77-78.
ScrapeEvaluate ==
  /\ Await("evaluate", "evaluate", "chat", "finally")
  /\ IF scrape_pc' = "chat"
     THEN \E text \in PageTexts : page_text' = text
     ELSE UNCHANGED page_text
  /\ UNCHANGED <<run_vars, heap, agents, page_vars, clock_vars, rerun_vars,
                 scraper, handles, closed, content, scrape_result>>

\* Lines 80-110: the prompt, the model call, response['message']['content'].
ScrapeChat ==
  /\ scrape_pc = "chat"
  /\ \/ /\ \E c \in Contents : content' = c
        /\ scrape_pc' = "parse"
        /\ UNCHANGED pending
     \/ /\ \E e \in {"chat", "KeyError"} : pending' = Raising(e)
        /\ scrape_pc' = "finally"
        /\ UNCHANGED content
  /\ UNCHANGED <<run_vars, heap, agents, page_vars, clock_vars, rerun_vars,
                 scraper, handles, closed, page_text, scrape_result>>

\* Lines 112-142: parse the output and build the result to return.
ScrapeParse ==
  /\ scrape_pc = "parse"
  /\ LET length == len(page_text)
     IN  pending' = IF length.exc = "none"
                    THEN Returning(VisionOk(scraper, extracted(content), length.val))
                    ELSE Raising(length.exc)
  /\ scrape_pc' = "finally"
  /\ UNCHANGED <<run_vars, heap, agents, page_vars, clock_vars, rerun_vars,
                 scraper, handles, closed, page_text, content, scrape_result>>

\* Lines 144-147.
ScrapeFinally ==
  /\ scrape_pc = "finally"
  /\ closed' = closed \o CloseOrder
  /\ handles' = [k \in DOMAIN handles |-> "closed"]
  /\ scrape_pc' = "exit"
  /\ UNCHANGED <<run_vars, heap, agents, page_vars, clock_vars, rerun_vars,
                 scraper, page_text, content, pending, scrape_result>>

\* Leaving the `async with`, then the return of the try body or, for a raised
\* exception, the except clause (lines 149-156).
ScrapeExit ==
  /\ scrape_pc = "exit"
  /\ handles' = Stop(handles)
  /\ scrape_result' = IF pending.kind = "return"
                      THEN pending.value
                      ELSE VisionFail(scraper, pending.exc)
  /\ scrape_pc' = "returned"
  /\ UNCHANGED <<run_vars, heap, agents, page_vars, clock_vars, rerun_vars,
                 scraper, closed, page_text, content, pending>>

VisionInit == Init /\ max_steps = 0

VisionNext ==
  \/ ScrapeLaunch
  \/ ScrapeNewContext
  \/ ScrapeNewPage
  \/ ScrapeGoto
  \/ ScrapeWait
  \/ ScrapeScreenshot
  \/ ScrapeEvaluate
  \/ ScrapeChat
  \/ ScrapeParse
  \/ ScrapeFinally
  \/ ScrapeExit

VisionSpec == VisionInit /\ [][VisionNext]_vars

\* ------------------------------------------------------------ properties
Returned == pc = "returned"
\* The Selector's last answer was an Action of kind DONE.
ChoseDone == action.t = "object" /\ "type" \in DOMAIN action.v /\ action.v.type = "DONE"
ModelFailed == model_reply.kind \in {"error", "text"}
LastRecord == action_history[Len(action_history)]

\* C1: for every budget N >= 1, whatever the Selector decides and the
\* Executor meets, at most N execute_action calls are made and at most N
\* ActionRecords appended, before the Finalizer is called and ever after.
C1_AtMostBudgetIterations ==
  max_steps >= 1 =>
    /\ calls.execute <= max_steps
    /\ Len(action_history) <= max_steps
    /\ step <= max_steps

C1_Witness ==
  /\ max_steps = MaxBudget
  /\ calls.final = 1
  /\ calls.execute = max_steps
  /\ Len(action_history) = max_steps

\* C2: when the Selector returns DONE as its (k+1)-th decision, with k below
\* the budget, exactly k actions have been executed and recorded, and the run
\* goes straight to the Finalizer: no further capture, decision or execution
\* follows, and the result reports k steps.
C2_DoneEndsLoopAtOnce ==
  ChoseDone =>
    /\ pc \in {"final", "close", "returned"}
    /\ step < max_steps
    /\ calls.decide = step + 1
    /\ calls.capture = step + 1
    /\ calls.execute = step
    /\ Len(action_history) = step
    /\ Returned =>
         /\ result.steps_taken = calls.decide - 1
         /\ Len(result.action_history) = calls.decide - 1

C2_Witness ==
  /\ ChoseDone
  /\ pc = "final"
  /\ step >= 1
  /\ calls.final = 0

\* C3: a run whose Selector returned m non-DONE actions and then DONE, with
\* m below the budget, returns steps_taken = m, a history of length m and
\* success = true.
C3_DoneRunSucceeds ==
  (Returned /\ ChoseDone) =>
    /\ result.steps_taken = calls.decide - 1
    /\ Len(result.action_history) = calls.decide - 1
    /\ result.success = TRUE

\* C4: a run with budget N >= 1 whose Selector never returned DONE, and whose
\* loop therefore ran its N iterations, is finalized and returns
\* success = true, steps_taken = N and a history without a DONE record.
C4_ExhaustedRunSucceeds ==
  (Returned /\ max_steps >= 1 /\ step = max_steps) =>
    /\ calls.final = 1
    /\ result.steps_taken = max_steps
    /\ \A i \in 1..Len(result.action_history) :
         result.action_history[i].action.type # "DONE"
    /\ result.success = TRUE

\* C5: the Planner step always hands the run on to NAVIGATE, and when its
\* model call errored or returned unparseable text the goal is the fallback:
\* primary_goal the task text, data_fields ["main content"], the fixed
\* obstacles and priority actions.
C5_PlannerNeverFails ==
  [][(pc = "plan" /\ pc' # "plan") =>
       /\ pc' = "navigate"
       /\ result' = result
       /\ ModelFailed' =>
            /\ extraction_goal'.t = "object"
            /\ extraction_goal'.v.primary_goal = task
            /\ extraction_goal'.v.data_fields = <<"main content">>
            /\ extraction_goal'.v.expected_obstacles = <<"cookie banner">>
            /\ extraction_goal'.v.priority_actions = <<"dismiss popups", "extract data">>
    ]_vars

C5_Witness ==
  /\ pc = "navigate"
  /\ model_reply.kind = "error"
  /\ extraction_goal.v.primary_goal = task
  /\ extraction_goal.v.data_fields = <<"main content">>

\* C6: once the loop has exited normally and the Finalizer has been called,
\* the run returns status ok with a final data object, whatever fails inside
\* the Finalizer.
C6_FinalizerTotal ==
  (Returned /\ calls.final >= 1) =>
    /\ result.status = "ok"
    /\ "extracted_data" \in DOMAIN result

\* C7: when the Finalizer's model call fails or returns unparseable output,
\* the final data has primary_data equal to the sequence of fragments
\* accumulated by the run, extraction_method "fallback" and confidence 0.5,
\* and that is the data the result carries.
C7_FinalFallbackKeepsFragments ==
  (pc \in {"close", "returned"} /\ calls.final = 1 /\ ModelFailed) =>
    /\ final_data.t = "object"
    /\ final_data.v.primary_data = extracted_data
    /\ final_data.v.metadata.extraction_method = "fallback"
    /\ final_data.v.confidence = 5
    /\ Returned => result.extracted_data = final_data

C7_Witness ==
  /\ pc = "returned"
  /\ calls.final = 1
  /\ model_reply.kind = "text"
  /\ Len(extracted_data) = 2
  /\ extracted_data[1] # extracted_data[2]
  /\ result.extracted_data.v.primary_data = extracted_data

\* C8: a CLICK whose element_index names no candidate element yields a
\* result that says so (it does not read 'clicked' as a successful click
\* does), and the loop goes on with the step counted.
C8_ClickNotFoundReported ==
  (pc = "loop" /\ "clicked" \in DOMAIN page_reply /\ ~page_reply.clicked) =>
    /\ LastRecord.action.type = "CLICK"
    /\ step = Len(action_history)
    /\ LastRecord.result.status # "clicked"

\* C9: an exception raised while an action executes is turned into a result
\* of status 'error' that is appended to the history as the record of that
\* step; the step counter is incremented and the loop goes on.
C9_ActionErrorRecorded ==
  [][(pc = "execute" /\ pc' # "execute" /\ "raised" \in DOMAIN page_reply') =>
       /\ pc' = "loop"
       /\ result' = result
       /\ step' = step + 1
       /\ Len(action_history') = Len(action_history) + 1
       /\ SubSeq(action_history', 1, Len(action_history)) = action_history
       /\ action_history'[Len(action_history')].step = step
       /\ action_history'[Len(action_history')].action = action.v
       /\ action_history'[Len(action_history')].result.status = "error"
    ]_vars

C9_Witness ==
  /\ pc = "loop"
  /\ "raised" \in DOMAIN page_reply
  /\ step = Len(action_history)
  /\ step >= 1
  /\ LastRecord.action.type = "EXTRACT"
  /\ LastRecord.result.status = "error"

\* C10: every Action the Selector returns has one of the five valid kinds,
\* whatever the model replied.
C10_DecisionKindValid ==
  (action.t = "object" /\ "type" \in DOMAIN action.v) =>
    action.v.type \in ValidKinds

\* The parsed answer has no kind field: it is not a dict with the key 'type'.
LacksKind(reply) ==
  /\ reply.kind = "json"
  /\ ~(reply.value.t = "object" /\ "type" \in DOMAIN reply.value.v)

\* C11: whatever the model replies, the Selector returns an Action: EXTRACT
\* with confidence 0.3 and an error-describing reasoning when the call errored
\* or its output was unparseable, EXTRACT with confidence 0.5 and reasoning
\* "fallback" when the parsed answer lacks a kind field.
C11_SelectorFallbacks ==
  [][(pc = "decide" /\ pc' # "decide") =>
       /\ ModelFailed' =>
            action' = Obj([type |-> "EXTRACT", reasoning |-> "Error in decision",
                           confidence |-> 3])
       /\ LacksKind(model_reply') =>
            action' = Obj([type |-> "EXTRACT", reasoning |-> "fallback",
                           confidence |-> 5])
    ]_vars

\* C12: every call of run returns a result with a status and a success flag,
\* success being true exactly when the status is 'ok'; an ok result carries
\* extracted_data and any other result carries an error string.  No failure
\* leaves run in any other way.
C12_ResultWellFormed ==
  /\ result.status \in {"none", "ok", "error"}
  /\ result.status = "none" <=> ~Returned
  /\ Returned =>
       /\ "success" \in DOMAIN result
       /\ result.success \in BOOLEAN
       /\ result.success <=> result.status = "ok"
       /\ result.status = "ok" => "extracted_data" \in DOMAIN result
       /\ result.status # "ok" => "error" \in DOMAIN result

C12_Witness ==
  /\ Returned
  /\ result.status = "error"
  /\ result.error = "TypeError"
  /\ result.success = FALSE
  /\ calls.execute >= 1

\* C13: an error result produced after navigation carries every ActionRecord
\* appended before the failure and the telemetry logs collected so far.
C13_ErrorResultKeepsTrail ==
  (Returned /\ result.status = "error" /\ calls.capture >= 1) =>
     /\ result.action_history = action_history
     /\ "network_logs" \in DOMAIN result
     /\ "console_logs" \in DOMAIN result

\* run returned an error result without having entered the loop.
FailedBeforeLoop ==
  /\ Returned
  /\ result.status = "error"
  /\ result.success = FALSE
  /\ result.steps_taken = 0
  /\ result.action_history = <<>>
  /\ calls.capture = 0
  /\ calls.decide = 0
  /\ calls.execute = 0
  /\ calls.final = 0

\* C14: when the browser cannot be created or the navigation fails, run
\* returns an error result with success false, zero steps and an empty
\* history, and no Observer, Selector, Executor or Finalizer step happens.
\* A timeout of the stability wait after a successful navigation does not
\* end the run.
C14_SetupFailureEndsRun ==
  /\ ("created" \in DOMAIN page_reply /\ ~page_reply.created) => FailedBeforeLoop
  /\ ("loaded" \in DOMAIN page_reply /\ ~page_reply.loaded) => FailedBeforeLoop
  /\ ("loaded" \in DOMAIN page_reply /\ page_reply.loaded /\ ~page_reply.idle) =>
       /\ pc \in {"loop", "final"}
       /\ result.status = "none"

C14_Witness ==
  /\ Returned
  /\ "loaded" \in DOMAIN page_reply
  /\ ~page_reply.loaded
  /\ result.error = "goto"
  /\ calls.plan = 1
  /\ browser = "closed"

\* C15: on every exit path the browser session has been released when run
\* returns: no launched browser is left open and playwright is not running.
C15_SessionReleased ==
  Returned =>
    /\ playwright = "stopped"
    /\ browser \in {"none", "closed"}
    /\ browser = "none" => result.error = "launch"

C15_Witness ==
  /\ Returned
  /\ result.status = "error"
  /\ result.error = "evaluate"
  /\ calls.capture >= 1
  /\ browser = "closed"

IsPrefix(s, t) == Len(s) <= Len(t) /\ SubSeq(t, 1, Len(s)) = s

\* C16: the two telemetry logs are append-only under any interleaving of page
\* events with the steps of run: no step removes or rewrites an entry, and
\* each page event appends exactly one entry to exactly one of the logs.
C16_LogsAppendOnly ==
  [][/\ IsPrefix(network_logs, network_logs')
     /\ IsPrefix(console_logs, console_logs')
     /\ (NetworkEvent \/ ConsoleEvent) <=>
          /\ Len(network_logs') + Len(console_logs') =
               Len(network_logs) + Len(console_logs) + 1
          /\ network_logs' = network_logs \/ console_logs' = console_logs
    ]_vars

C16_Witness ==
  /\ pc = "loop"
  /\ step = 1
  /\ Len(network_logs) = 2
  /\ LastRecord.network_events = 1
  /\ network_logs[1].type # network_logs[2].type

\* The phase a position of run belongs to: START 0, PLANNING 1, NAVIGATE 2,
\* ITERATE 3, FINALIZE 4, TERMINAL 5.
PhaseOf(p) ==
  CASE p \in {"start", "page"} -> 0
    [] p = "plan" -> 1
    [] p = "navigate" -> 2
    [] p \in {"loop", "decide", "execute"} -> 3
    [] p = "final" -> 4
    [] OTHER -> 5

\* What the calls made so far say about the order of the components.
CallsInOrder ==
  /\ calls.plan <= 1
  /\ calls.plan = 1 <=> (PhaseOf(pc) \in 2..4 \/ calls.navigate = 1 \/ pc = "close")
  /\ calls.navigate <= 1
  /\ calls.navigate = 0 => calls.capture = 0 /\ calls.final = 0
  /\ calls.decide <= calls.capture /\ calls.capture <= calls.decide + 1
  /\ calls.execute <= calls.decide /\ calls.decide <= calls.execute + 1
  /\ pc = "decide" => calls.capture = calls.decide + 1
  /\ pc = "execute" => calls.capture = calls.decide /\ calls.decide = calls.execute + 1
  /\ pc = "loop" => calls.capture = calls.decide /\ calls.decide = calls.execute
  /\ calls.final <= 1
  /\ calls.final = 1 =>
       /\ pc \in {"close", "returned"}
       /\ ChoseDone \/ ~LoopCondition(step, max_steps)
  /\ result.status = "ok" => calls.final = 1

\* C17: run goes through START, PLANNING, NAVIGATE, ITERATE, FINALIZE,
\* TERMINAL in this order; the Planner is called once, before navigation;
\* Observer, Selector and Executor act after navigation and in this order
\* within an iteration; the Finalizer is called exactly once on a run that
\* returns ok, only after the loop has exited, and nothing follows it but
\* the return.
C17_PhaseOrder ==
  /\ CallsInOrder
  /\ [][/\ PhaseOf(pc) <= PhaseOf(pc')
        /\ CallsInOrder'
        /\ calls.final = 1 => calls' = calls
       ]_vars

C17_Witness ==
  /\ Returned
  /\ result.status = "ok"
  /\ calls.plan = 1 /\ calls.navigate = 1
  /\ calls.capture = 2 /\ calls.decide = 2
  /\ calls.execute = 1 /\ calls.final = 1
  /\ ChoseDone

\* The number of steps run can still take, at most.
Rank ==
  LET left == IF LoopCondition(step, max_steps) THEN max_steps - step ELSE 0
  IN  CASE pc = "start" -> 3 * left + 7
        [] pc = "page" -> 3 * left + 6
        [] pc = "plan" -> 3 * left + 5
        [] pc = "navigate" -> 3 * left + 4
        [] pc = "loop" -> 3 * left + 3
        [] pc = "decide" -> 3 * left + 2
        [] pc = "execute" -> 3 * left + 1
        [] pc = "final" -> 2
        [] pc = "close" -> 1
        [] OTHER -> 0

\* C18: when every external call returns or fails, every run returns a
\* result, for every budget and whatever the Selector and the model do: each
\* step of run (each change of its position) brings the return strictly
\* nearer, and the return is reached.
C18_RunTerminates ==
  /\ <>Returned
  /\ [][pc' # pc => Rank' < Rank]_vars

C18_Witness ==
  /\ Returned
  /\ max_steps = MaxBudget
  /\ calls.execute = MaxBudget
  /\ ~ChoseDone
  /\ ModelFailed
  /\ result.status = "ok"

\* The network-idle wait of the step just taken timed out.
IdleTimedOut(p) == "idle" \in DOMAIN p /\ ~p.idle

\* C20: a timeout of the stability wait is never propagated: after a
\* successful navigation run goes on into the loop, and a CLICK or WAIT whose
\* wait timed out still records its normal result 'clicked' or 'waited' and
\* the loop continues.
C20_StabilityTimeoutSwallowed ==
  [][(pc \in {"navigate", "execute"} /\ pc' # pc /\ IdleTimedOut(page_reply')) =>
       /\ pc' = "loop"
       /\ result' = result
       /\ pc = "navigate" => action_history' = action_history
       /\ pc = "execute" =>
            /\ action.v.type \in {"CLICK", "WAIT"}
            /\ Len(action_history') = Len(action_history) + 1
            /\ LastRecord'.result.status =
                 (IF action.v.type = "CLICK" THEN "clicked" ELSE "waited")
            /\ step' = step + 1
    ]_vars

C20_Witness ==
  /\ pc = "loop"
  /\ IdleTimedOut(page_reply)
  /\ step >= 1
  /\ LastRecord.action.type = "WAIT"
  /\ LastRecord.result = [status |-> "waited", duration |-> WaitDuration]

\* What an instance holds, its references followed into the heap.
View(i) ==
  LET a == agents[i]
  IN  [step |-> a.step,
       extracted_data |-> heap[a.extracted_data],
       action_history |-> heap[a.action_history],
       network_logs |-> heap[a.network_logs],
       console_logs |-> heap[a.console_logs],
       screenshots |-> heap[a.screenshots]]

\* What an instance that runs alone holds after the writes ops.
Fresh ==
  [step |-> 0, extracted_data |-> <<>>, action_history |-> <<>>,
   network_logs |-> <<>>, console_logs |-> <<>>, screenshots |-> <<>>]

Apply(v, op) ==
  CASE op.kind = "capture" -> [v EXCEPT !.screenshots = Append(@, op.arg)]
    [] op.kind = "extract" -> [v EXCEPT !.extracted_data = Append(@, op.arg)]
    [] op.kind = "record" ->
         [v EXCEPT !.action_history = Append(@, [step |-> v.step]),
                   !.step = @ + 1]
    [] op.kind = "network" ->
         [v EXCEPT !.network_logs = Append(@, NetworkEntry(op.arg))]
    [] op.kind = "console" ->
         [v EXCEPT !.console_logs = Append(@, ConsoleEntry(op.arg))]

RECURSIVE Alone(_)
Alone(ops) ==
  IF ops = <<>> THEN Fresh ELSE Apply(Alone(SubSeq(ops, 1, Len(ops) - 1)), ops[Len(ops)])

\* C19: two runs interleaved in any way are independent: the step counter,
\* action history, extracted fragments, screenshots and telemetry logs of
\* each instance are what its own writes alone would have produced, whatever
\* the other instance has done in between.
C19_RunsIndependent ==
  \A i \in Agents : agents[i].born => View(i) = Alone(agents[i].ops)

C19_Witness ==
  /\ \A i \in Agents : agents[i].born /\ Len(agents[i].ops) = MaxOps
  /\ agents["a"].ops[1].kind = "record"
  /\ agents["b"].ops[1].kind = "network"
  /\ agents["b"].ops[MaxOps].kind = "record"
  /\ View("a") # View("b")
  /\ agents["b"].action_history < agents["a"].action_history

\* C21: when the enumeration of the candidate elements fails inside
\* capture_state, the capture is not aborted: the Observer returns a PageState
\* and the iteration goes on to the Selector; run does not return an error.
C21_EnumerationFailureTolerated ==
  ("captured" \in DOMAIN page_reply /\ page_reply.captured = "evaluate") =>
     /\ pc = "decide"
     /\ result.status = "none"
     /\ state = PageState(url, step)

\* The model's reply parsed to an object that has all of the fields.
HasShape(reply, fields) ==
  /\ reply.kind = "json"
  /\ reply.value.t = "object"
  /\ fields \subseteq DOMAIN reply.value.v

GoalFields ==
  {"primary_goal", "data_fields", "success_criteria", "expected_obstacles",
   "priority_actions"}
FinalFields == {"primary_data", "metadata", "confidence"}

IsFinalFallback(d) ==
  /\ d.t = "object"
  /\ FinalFields \subseteq DOMAIN d.v
  /\ "extraction_method" \in DOMAIN d.v.metadata
  /\ d.v.metadata.extraction_method = "fallback"
  /\ d.v.primary_data = extracted_data

\* C22: malformed model output is never propagated as structured data: when
\* the model's reply to the Planner or to the Finalizer is not an object of
\* the demanded shape (unparseable, or parsed but lacking the required
\* fields), the goal kept by run, and the final data placed in the ok result,
\* is the documented fallback and not the model's reply.
C22_MalformedReplyReplaced ==
  /\ (pc = "navigate" /\ ~HasShape(model_reply, GoalFields)) =>
       extraction_goal = Obj(DefaultGoal(task))
  /\ (Returned /\ result.status = "ok" /\ ~HasShape(model_reply, FinalFields)) =>
       IsFinalFallback(result.extracted_data)

\* C23: on a page that has not changed since it was observed, CLICK with
\* element_index i clicks exactly the element the Observer reported with
\* index i, and no element when the Observer reported none with that index.
C23_ClickHitsObserved ==
  clicked.done =>
    LET reported == {k \in 1..Len(observation.elements) :
                       observation.elements[k].index = clicked.index}
    IN  IF reported = {} THEN clicked.target = 0
        ELSE \A k \in reported : clicked.target = observation.elements[k].el

\* run has returned after a navigation that succeeded.
NavigatedAndReturned ==
  /\ Returned
  /\ calls.navigate = 1
  /\ ~("loaded" \in DOMAIN page_reply /\ ~page_reply.loaded)

\* C24: with a model that fails on every call, a run of budget N that
\* navigated successfully returns ok with success true: the goal is the
\* Planner's default, each of the N iterations executed the Selector's error
\* EXTRACT, steps_taken is N, and the final data is the Finalizer's fallback
\* holding the fragments of those steps.
C24_AllModelFailRunSucceeds ==
  (NavigatedAndReturned /\ calls.model_ok = 0) =>
     /\ result.status = "ok"
     /\ result.success
     /\ result.extraction_goal = Obj(DefaultGoal(task))
     /\ result.steps_taken = max_steps
     /\ Len(result.action_history) = max_steps
     /\ \A k \in 1..Len(result.action_history) :
          result.action_history[k].action = DecisionErrorDecision
     /\ IsFinalFallback(result.extracted_data)

\* The window holds a request with no later response or failed event for
\* the same resource.
Unanswered(logs, now) ==
  LET first == Len(logs) - Len(RecentNetwork(logs, now)) + 1
  IN  \E k \in first..Len(logs) :
        /\ logs[k].type = "request"
        /\ ~\E j \in (k + 1)..Len(logs) :
              logs[j].url = logs[k].url /\ logs[j].type \in {"response", "failed"}

\* C25: the Selector's loading flag is true exactly when the recent window
\* holds a request that is still unanswered; a window whose requests have all
\* been answered gives loading = false.
C25_LoadingMeansUnanswered ==
  loading.computed => (loading.value <=> Unanswered(network_logs, clock))

\* The records of the history whose result has the status.
WithStatus(history, status) ==
  {k \in 1..Len(history) : history[k].result.status = status}

\* C26: each successful EXTRACT appends exactly one fragment and nothing else
\* touches the fragment sequence: the fragments are as many as the records
\* with status 'extracted', they keep their order, and CLICK, SCROLL, WAIT,
\* unknown and failed actions leave the sequence unchanged.
C26_FragmentsFollowExtracts ==
  /\ Len(extracted_data) = Cardinality(WithStatus(action_history, "extracted"))
  /\ [][/\ IsPrefix(extracted_data, extracted_data')
        /\ Len(extracted_data') <= Len(extracted_data) + 1
        /\ (pc = "execute" /\ pc' = "loop") =>
             (Len(extracted_data') = Len(extracted_data) + 1 <=>
                LastRecord'.result.status = "extracted")
        /\ extracted_data' # extracted_data =>
             pc = "execute" /\ action.v.type = "EXTRACT"
       ]_vars

C26_Witness ==
  /\ Returned
  /\ result.status = "ok"
  /\ Len(action_history) = 2
  /\ action_history[1].action.type = "EXTRACT"
  /\ action_history[1].result.status = "error"
  /\ action_history[2].result.status = "extracted"
  /\ extracted_data = <<<<"Price", "9.99">>>>

Min(a, b) == IF a < b THEN a ELSE b

\* C27: the telemetry of an ok result is a bounded tail of the logs:
\* network_logs is the last min(30, n) of the run's n network entries in
\* their order, and the console entries returned are bounded likewise,
\* however many console events the run produced.
C27_ResultLogsAreBoundedTail ==
  (Returned /\ result.status = "ok") =>
     LET n == Len(network_logs)
         m == Len(result.network_logs)
     IN  /\ m = Min(NetworkTail, n)
         /\ \A k \in 1..m : result.network_logs[k] = network_logs[n - m + k]
         /\ Len(result.console_errors) <= NetworkTail

Max(a, b) == IF a < b THEN b ELSE a

\* C28: at the top of every loop iteration and in every returned result, ok
\* or error, the step counter equals the length of the action history, the
\* i-th record (from 0) has step index i, and 0 <= step <= max(0, max_steps);
\* so steps_taken equals the length of the history in every result.
C28_StepCountsHistory ==
  (pc = "loop" \/ Returned) =>
     /\ step = Len(action_history)
     /\ \A k \in 1..Len(action_history) : action_history[k].step = k - 1
     /\ 0 <= step /\ step <= Max(0, max_steps)
     /\ Returned =>
          /\ result.steps_taken = Len(result.action_history)
          /\ result.steps_taken = step
          /\ result.action_history = action_history

C28_Witness ==
  /\ Returned
  /\ result.status = "error"
  /\ result.steps_taken = 1
  /\ Len(result.action_history) = 1
  /\ result.action_history[1].step = 0
  /\ max_steps = MaxBudget

\* A run started with a negative budget has returned.
C28_WitnessNegativeBudget ==
  /\ Returned
  /\ max_steps < 0
  /\ result.status = "ok"
  /\ result.steps_taken = 0

\* C29: no record of a DONE action ever appears in the history and
\* execute_action is never called with a DONE action: the iteration in which
\* the Selector returns DONE appends no record and leaves the step counter.
C29_DoneNeverRecorded ==
  /\ \A k \in 1..Len(action_history) : action_history[k].action.type # "DONE"
  /\ pc = "execute" => ~ChoseDone
  /\ [][(pc = "decide" /\ pc' # "decide" /\ ChoseDone') =>
          /\ pc' = "final"
          /\ step' = step
          /\ action_history' = action_history
          /\ calls'.execute = calls.execute
       ]_vars

C29_Witness ==
  /\ Returned
  /\ result.status = "ok"
  /\ ChoseDone
  /\ calls.decide = 2
  /\ calls.execute = 1
  /\ result.steps_taken = 1
  /\ Len(result.action_history) = 1

\* C30: each capture of the Observer appends exactly one entry to the
\* screenshot archive, so the screenshots count of an ok result is the number
\* of Selector decisions made in the loop plus one for the Finalizer's
\* snapshot: steps_taken + 1 when the budget was used up, steps_taken + 2
\* when the loop ended on DONE.
C30_ScreenshotsCountCaptures ==
  /\ (Returned /\ result.status = "ok") =>
       /\ result.screenshots = Len(screenshots)
       /\ result.screenshots = calls.decide + 1
       /\ result.screenshots = result.steps_taken + (IF ChoseDone THEN 2 ELSE 1)
  /\ [][/\ IsPrefix(screenshots, screenshots')
        /\ Len(screenshots') <= Len(screenshots) + 1
        /\ ((pc = "loop" /\ pc' = "decide") \/ (pc = "final" /\ pc' = "close")) =>
             Len(screenshots') = Len(screenshots) + 1
       ]_vars

C30_Witness ==
  /\ Returned
  /\ result.status = "ok"
  /\ ChoseDone
  /\ result.steps_taken = 1
  /\ result.screenshots = 3

\* Every decision made so far was executed and had a kind outside the five
\* valid ones.
OnlyUnknownKinds ==
  /\ calls.decide = Len(action_history)
  /\ \A k \in 1..Len(action_history) : action_history[k].action.type \notin ValidKinds

\* C31 (the part about one action): executing an action of a kind that is
\* not one of the five valid kinds touches nothing in the page and gives the
\* result 'unknown_action'; the loop records it, counts the step and goes on.
C31_UnknownKindRecorded ==
  [][(pc = "execute" /\ pc' # pc /\ action.v.type \notin ValidKinds) =>
       /\ page_reply' = [untouched |-> TRUE]
       /\ pc' = "loop"
       /\ step' = step + 1
       /\ Len(action_history') = Len(action_history) + 1
       /\ LastRecord'.action = action.v
       /\ LastRecord'.result = [status |-> "unknown_action", action |-> action.v.type]
       /\ extracted_data' = extracted_data
    ]_vars

\* C31: an action of unknown kind is recorded with status 'unknown_action'
\* and costs one step, so a run of budget N >= 1 whose Selector only ever
\* returns unknown kinds ends after exactly N iterations with status ok.
C31_UnknownKindsRunSucceeds ==
  (NavigatedAndReturned /\ max_steps >= 1 /\ OnlyUnknownKinds) =>
     /\ result.status = "ok"
     /\ result.steps_taken = max_steps
     /\ Len(result.action_history) = max_steps
     /\ \A k \in 1..Len(result.action_history) :
          result.action_history[k].result.status = "unknown_action"

\* C32: with a step budget of 0 or less, a run that navigated plans once,
\* performs no Observer, Selector or Executor iteration, calls the Finalizer
\* once, and returns status ok with success true, steps_taken 0 and an empty
\* action history.
C32_ZeroBudgetRunSucceeds ==
  (NavigatedAndReturned /\ max_steps <= 0) =>
     /\ calls.plan = 1
     /\ calls.capture = 0
     /\ calls.decide = 0
     /\ calls.execute = 0
     /\ calls.final = 1
     /\ result.status = "ok"
     /\ result.success
     /\ result.steps_taken = 0
     /\ result.action_history = <<>>

\* The attributes of the instance now, with the calls made so far.
Self ==
  Attributes(step, action_history, extracted_data, screenshots, network_logs,
             console_logs, calls)
\* The loop of the current call of run has made no iteration.
NoIteration ==
  /\ calls.capture = before.calls.capture
  /\ calls.decide = before.calls.decide
  /\ calls.execute = before.calls.execute

\* C33: run never resets the agent's state. A second call of run on the same
\* instance starts from the step counter, history, fragments, screenshots
\* and logs the first call left and only ever extends them; after a first
\* run that exhausted its budget the second makes no loop iteration and
\* returns the first run's history and step count unchanged.
C33_SecondRunContinues ==
  reruns >= 1 =>
    /\ pc = "start" => Self = before
    /\ step >= before.step
    /\ IsPrefix(before.action_history, action_history)
    /\ IsPrefix(before.extracted_data, extracted_data)
    /\ IsPrefix(before.screenshots, screenshots)
    /\ IsPrefix(before.network_logs, network_logs)
    /\ IsPrefix(before.console_logs, console_logs)
    /\ before.step >= max_steps =>
         /\ NoIteration
         /\ step = before.step
         /\ action_history = before.action_history
         /\ Returned =>
              /\ result.steps_taken = before.step
              /\ result.action_history = before.action_history

\* A first run of budget >= 1 used it up and left a log entry, and the second
\* run on the same instance reached the Finalizer and returned that run's
\* history.
C33_Witness ==
  /\ reruns = 1
  /\ Returned
  /\ max_steps >= 1
  /\ before.step = max_steps
  /\ Len(before.action_history) = max_steps
  /\ Len(before.screenshots) >= 1
  /\ Len(before.network_logs) + Len(before.console_logs) >= 1
  /\ calls.final = 2
  /\ result.status = "ok"
  /\ result.action_history = before.action_history

\* scrape has created its page.
PageCreated == handles.page # "none"
\* The model answered with output that json.loads rejects.
OutputNotJson == content.t = "string" /\ json_loads(content).exc # "none"

====
